---- MODULE Spec2Model ----
(***************************************************************************)
(* Model of examples/google-colab/tutorial_pytorch_image_classification    *)
(* .ipynb: the FlowerDataset adapter (two CSV tables joined by file_name   *)
(* and filtered by tag), the batch iterators built over it, the training / *)
(* validation loop and the inference cell that writes the predictions CSV. *)
(* Four specifications share the variables: SpecDataset (the adapter alone), *)
(* SpecLoader (one loader's passes), SpecWorkers (a loader's passes with    *)
(* worker processes) and Spec (a run of the notebook's cells).              *)
(*                                                                         *)
(* Text is modelled as a sequence of one-character strings so that         *)
(* str.lower(), int() and pandas' column type inference are computed and   *)
(* not assumed.  A file name is the sequence of its path components, so    *)
(* that os.path.basename is computed as well.                              *)
(***************************************************************************)
EXTENDS Integers, Sequences, FiniteSets, TLC

VARIABLES
    annotations_csv,  \* rows of annotations.csv: [file_name, class_name], text as written
    tags_csv,         \* rows of images_tags.csv: [file_name, tag]
    dataset,          \* the FlowerDataset object under test (NoDataset before __init__);
                      \* in a run of the notebook its three datasets, by mode
    ret,              \* what the last call on `dataset` returned or raised
    loader,           \* a DataLoader built over `dataset` (NoLoader before it is built)
    it,               \* the iterator of the pass in progress: sampler order and position
    batches,          \* history: the batches the current pass has yielded so far
    passes,           \* history: the number of passes started over `loader`
    pool,             \* the loader's worker processes and their queues (NoPool if unused)
    pc,               \* the statement the notebook executes next
    py,               \* the notebook's variables (epoch, training_loss, total, ...)
    model,            \* the network: its mode (train / eval)
    grad_enabled,     \* torch's gradient tracking switch
    optimizer,        \* the Adam optimizer: how many steps it has taken
    stdout,           \* what the current epoch has printed
    predictions_csv,  \* model_predictions.csv (NoFile until written)
    error,            \* the exception that ended the run ("" while it runs)
    log               \* history: loss and prediction of every batch of the pass

dsvars == <<annotations_csv, tags_csv, dataset, ret>>
ldvars == <<loader, it, batches, passes, pool>>
nbvars == <<pc, py, model, grad_enabled, optimizer, stdout, predictions_csv, error, log>>
vars == <<dsvars, ldvars, nbvars>>

----------------------------------------------------------------------------
(* Bounds of the model *)

MaxFiles == 3       \* number of distinct image files a table may name
MaxLen == 4         \* largest dataset a loader is iterated over on its own
MaxBatch == 3       \* largest batch size a loader is built with on its own
MaxShuffle == 4     \* up to this length a shuffled pass may take any permutation
MaxPasses == 2      \* passes made over one loader
MaxTrain == 6       \* files tagged train in a run of the notebook
MaxValid == 2       \* files tagged valid in a run of the notebook
MaxTest == 2        \* files tagged test in a run of the notebook
MaxImages == 8      \* files tagged in all in a run of the notebook
MaxWorkers == 2     \* worker processes of a loader iterated over on its own

----------------------------------------------------------------------------
(* Text *)

Digits == {"0", "1", "2", "3", "4", "5", "6", "7", "8", "9"}

DigitVal(c) ==
    CASE c = "0" -> 0 [] c = "1" -> 1 [] c = "2" -> 2 [] c = "3" -> 3
      [] c = "4" -> 4 [] c = "5" -> 5 [] c = "6" -> 6 [] c = "7" -> 7
      [] c = "8" -> 8 [] c = "9" -> 9

\* str.lower() on one character (the capitals the class names use)
LowerChar(c) ==
    CASE c = "P" -> "p" [] c = "H" -> "h" [] c = "O" -> "o"
      [] c = "C" -> "c" [] c = "B" -> "b" [] c = "D" -> "d"
      [] OTHER -> c

\* str.lower()
Lower(s) == [i \in 1..Len(s) |-> LowerChar(s[i])]

\* the text is a non-empty run of decimal digits
IsDigits(s) == Len(s) > 0 /\ \A i \in 1..Len(s) : s[i] \in Digits

RECURSIVE ParseInt(_)
ParseInt(s) ==
    IF Len(s) = 0 THEN 0
    ELSE 10 * ParseInt(SubSeq(s, 1, Len(s) - 1)) + DigitVal(s[Len(s)])

\* class names that occur in the tables
PinkPrimrose == <<"P","i","n","k"," ","P","r","i","m","r","o","s","e">>
One          == <<"1">>
Zero         == <<"0">>
Two          == <<"2">>

ClassNames == {PinkPrimrose, One}

\* the keys of the class mapping of the tutorial text, lower-cased names
pink_primrose == <<"p","i","n","k"," ","p","r","i","m","r","o","s","e">>
hard_leaved_pocket_orchid ==
    <<"h","a","r","d","-","l","e","a","v","e","d"," ",
      "p","o","c","k","e","t"," ","o","r","c","h","i","d">>
canterbury_bells ==
    <<"c","a","n","t","e","r","b","u","r","y"," ","b","e","l","l","s">>

----------------------------------------------------------------------------
(* Files *)

\* <<folder, base name>>: the folder layout images/<class>/<image>.jpg
AllFiles ==
    << <<"0", "image_1.jpg">>, <<"1", "image_1.jpg">>, <<"0", "image_2.jpg">>,
       <<"1", "image_3.jpg">>, <<"2", "image_4.jpg">>, <<"2", "image_2.jpg">>,
       <<"0", "image_5.jpg">>, <<"1", "image_6.jpg">>, <<"2", "image_7.jpg">>,
       <<"0", "image_8.jpg">>, <<"1", "image_9.jpg">>, <<"2", "image_10.jpg">>,
       <<"0", "image_11.jpg">>, <<"1", "image_12.jpg">>, <<"2", "image_13.jpg">>,
       <<"0", "image_14.jpg">>, <<"1", "image_15.jpg">>, <<"2", "image_16.jpg">> >>

FileSeq(n) == SubSeq(AllFiles, 1, n)

\* os.path.basename
basename(path) == path[Len(path)]

Modes == {"train", "valid", "test"}

----------------------------------------------------------------------------
(* The two CSV files *)

\* the files of `keep`, in the order of `files`
Kept(files, keep) ==
    LET In(f) == f \in keep
    IN  SelectSeq(files, In)

\* every annotations.csv over `files` with unique file_name keys
AnnotationTables(files, names) ==
    LET S == {files[i] : i \in 1..Len(files)}
    IN  {[i \in 1..Len(Kept(files, keep)) |->
            [file_name  |-> Kept(files, keep)[i],
             class_name |-> cls[Kept(files, keep)[i]]]] :
            keep \in SUBSET S, cls \in [S -> names]}

\* every images_tags.csv over `files` with unique file_name keys
TagTables(files) ==
    LET S == {files[i] : i \in 1..Len(files)}
    IN  {[i \in 1..Len(Kept(files, keep)) |->
            [file_name |-> Kept(files, keep)[i],
             tag       |-> tg[Kept(files, keep)[i]]]] :
            keep \in SUBSET S, tg \in [S -> Modes]}

\* the tables of a pipeline run: the first n_test files are tagged test, the
\* next n_valid valid, the next n_train train; every file is labelled with the
\* name of its folder, or, when `named`, folder 0 with the name of its class
PipelineAnnotations(n, named) ==
    [i \in 1..n |->
        [file_name  |-> AllFiles[i],
         class_name |-> IF named /\ AllFiles[i][1] = "0" THEN PinkPrimrose
                        ELSE <<AllFiles[i][1]>>]]

PipelineTags(n_test, n_valid, n_train) ==
    [i \in 1..(n_test + n_valid + n_train) |->
        [file_name |-> AllFiles[i],
         tag       |-> IF i <= n_test THEN "test"
                       ELSE IF i <= n_test + n_valid THEN "valid" ELSE "train"]]

----------------------------------------------------------------------------
(* pandas *)

NaN == [kind |-> "nan"]
IntCell(n) == [kind |-> "int", val |-> n]
StrCell(s) == [kind |-> "str", val |-> s]

\* pd.read_csv(annotations, index_col='file_name'): a column whose every value
\* parses as an integer becomes an int64 column, any other column holds str
read_annotations(csv) ==
    LET numeric == Len(csv) > 0 /\ \A i \in 1..Len(csv) : IsDigits(csv[i].class_name)
    IN  [i \in 1..Len(csv) |->
            [file_name  |-> csv[i].file_name,
             class_name |-> IF numeric THEN IntCell(ParseInt(csv[i].class_name))
                                       ELSE StrCell(csv[i].class_name)]]

\* a join that files an untagged row under 'train' instead of leaving it NaN
assign_tag_default(my_data, tags) ==
    LET TagOf(f) ==
            IF \E j \in 1..Len(tags) : tags[j].file_name = f
            THEN StrCell(tags[CHOOSE j \in 1..Len(tags) : tags[j].file_name = f].tag)
            ELSE StrCell("train")
    IN  [i \in 1..Len(my_data) |->
            [file_name  |-> my_data[i].file_name,
             class_name |-> my_data[i].class_name,
             tag        |-> TagOf(my_data[i].file_name)]]

\* my_data['tag'] = <frame indexed by file_name>: the assigned frame is
\* re-indexed on my_data's index; a key it lacks gives NaN, a key only it has
\* is dropped
assign_tag(my_data, tags) ==
    LET TagOf(f) ==
            IF \E j \in 1..Len(tags) : tags[j].file_name = f
            THEN StrCell(tags[CHOOSE j \in 1..Len(tags) : tags[j].file_name = f].tag)
            ELSE NaN
    IN  [i \in 1..Len(my_data) |->
            [file_name  |-> my_data[i].file_name,
             class_name |-> my_data[i].class_name,
             tag        |-> TagOf(my_data[i].file_name)]]

\* a filter with the comparison inverted
filter_tag_inverted(my_data, mode) ==
    LET Match(r) == r.tag # StrCell(mode)
    IN  SelectSeq(my_data, Match)

\* my_data.loc[my_data['tag'] == mode].reset_index(drop=True)
filter_tag(my_data, mode) ==
    LET Match(r) == r.tag = StrCell(mode)
    IN  SelectSeq(my_data, Match)

----------------------------------------------------------------------------
(* FlowerDataset *)

\* mapping = None, or a dictionary {class name: class index}
None == [given |-> FALSE, map |-> <<>>]
Dict(m) == [given |-> TRUE, map |-> m]

\* the mapping of the tutorial text, and one keyed by the folder names
TutorialMapping ==
    Dict(pink_primrose :> 0 @@ hard_leaved_pocket_orchid :> 1 @@ canterbury_bells :> 2)
FolderMapping == Dict(Zero :> 0 @@ One :> 1 @@ Two :> 2)

Mappings == {None, TutorialMapping, FolderMapping}

NoDataset == [built |-> FALSE, mapping |-> None, mode |-> "", data |-> <<>>]

\* an __init__ that keeps the joined table without filtering it by mode
FlowerDataset_unfiltered(annotations, train_test_valid_split, mapping, mode) ==
    [built   |-> TRUE,
     mapping |-> mapping,
     mode    |-> mode,
     data    |-> assign_tag(read_annotations(annotations), train_test_valid_split)]

\* FlowerDataset.__init__
FlowerDataset(annotations, train_test_valid_split, mapping, mode) ==
    [built   |-> TRUE,
     mapping |-> mapping,
     mode    |-> mode,
     data    |-> filter_tag(assign_tag(read_annotations(annotations),
                                       train_test_valid_split), mode)]

\* FlowerDataset.__len__
len(self) == Len(self.data)

Returned(v) == [raised |-> "", value |-> v]
Raised(e)   == [raised |-> e, value |-> <<>>]

\* Image.open(im_path) followed by self.transform: the pixels of that file
Image(im_path) == <<"pixels", im_path>>

\* self.mapping[<cell>.lower()] when a mapping is given, else int(<cell>)
label_of(mapping, cell) ==
    IF mapping.given
    THEN IF cell.kind # "str" THEN Raised("AttributeError")  \* int64 has no lower()
         ELSE IF Lower(cell.val) \notin DOMAIN mapping.map
              THEN Raised("KeyError")
              ELSE Returned(mapping.map[Lower(cell.val)])
    ELSE IF cell.kind = "int" THEN Returned(cell.val)
         ELSE IF IsDigits(cell.val) THEN Returned(ParseInt(cell.val))
              ELSE Raised("ValueError")

\* a sample that carries the file name in every mode
sample_always_named(mode, im, label_tensor, file_name) ==
    [im |-> im, labels |-> label_tensor, im_name |-> file_name]

\* the dictionary __getitem__ returns
sample(mode, im, label_tensor, file_name) ==
    IF mode = "test"
    THEN [im |-> im, labels |-> label_tensor, im_name |-> file_name]
    ELSE [im |-> im, labels |-> label_tensor]

\* FlowerDataset.__getitem__; idx counts from 0, the rows of self.data from 1
getitem(self, idx) ==
    IF idx + 1 \notin 1..Len(self.data) THEN Raised("KeyError")
    ELSE
    LET row == self.data[idx + 1]
        labels == label_of(self.mapping, row.class_name)
        im_path == row.file_name
    IN  IF labels.raised # "" THEN labels
        ELSE Returned(sample(self.mode, Image(im_path), labels.value, row.file_name))

----------------------------------------------------------------------------
(* DataLoader *)

Min(a, b) == IF a <= b THEN a ELSE b

NoLoader == [dataset |-> NoDataset, batch_size |-> 1, shuffle |-> FALSE, drop_last |-> FALSE,
             num_workers |-> 1]

\* a loader that drops an incomplete last batch
DataLoader_drop_last(ds, batch_size, shuffle) ==
    [dataset |-> ds, batch_size |-> batch_size, shuffle |-> shuffle, drop_last |-> TRUE,
     num_workers |-> 1]

\* torch.utils.data.DataLoader(ds, batch_size=.., shuffle=.., num_workers=1):
\* drop_last is left at its default, False
DataLoader(ds, batch_size, shuffle) ==
    [dataset |-> ds, batch_size |-> batch_size, shuffle |-> shuffle, drop_last |-> FALSE,
     num_workers |-> 1]

\* 0, 1, ..., n-1
InOrder(n) == [i \in 1..n |-> i - 1]

\* every permutation of 0..n-1
randperm(n) ==
    {p \in [1..n -> 0..(n - 1)] : \A i, j \in 1..n : p[i] = p[j] => i = j}

\* the rotations of 0..n-1 and of its reverse
Rotations(n) ==
    {[i \in 1..n |-> (i - 1 + r) % n] : r \in 0..(n - 1)} \cup
    {[i \in 1..n |-> (n - i + r) % n] : r \in 0..(n - 1)}

\* the index orders a pass may take: the sampler's fresh random permutation
\* when shuffling, else index order
Orders(ld) ==
    LET n == len(ld.dataset)
    IN  IF ~ld.shuffle THEN {InOrder(n)}
        ELSE IF n <= MaxShuffle THEN randperm(n)
        ELSE Rotations(n)

NoIter == [state |-> "none", order |-> <<>>, pos |-> 0]

\* iter(loader) with the sampler order of this pass
iter(order) == [state |-> "iterating", order |-> order, pos |-> 0]

\* the pass has no further batch: the order is used up, or what is left does
\* not fill a batch and drop_last is set
exhausted(ld, itr) ==
    LET left == Len(itr.order) - itr.pos
    IN  left = 0 \/ (ld.drop_last /\ left < ld.batch_size)

\* the indices of the next batch: the next batch_size of the order, or what is left
next_indices(ld, itr) ==
    SubSeq(itr.order, itr.pos + 1, Min(itr.pos + ld.batch_size, Len(itr.order)))

\* the iterator after it has yielded that batch
advance(ld, itr) ==
    [itr EXCEPT !.pos = Min(itr.pos + ld.batch_size, Len(itr.order))]

stop(itr) == [itr EXCEPT !.state = "exhausted"]

\* default_collate: the samples' fields, stacked field by field
collate(samples) ==
    IF Len(samples) > 0 /\ "im_name" \in DOMAIN samples[1]
    THEN [im      |-> [k \in 1..Len(samples) |-> samples[k].im],
          labels  |-> [k \in 1..Len(samples) |-> samples[k].labels],
          im_name |-> [k \in 1..Len(samples) |-> samples[k].im_name]]
    ELSE [im      |-> [k \in 1..Len(samples) |-> samples[k].im],
          labels  |-> [k \in 1..Len(samples) |-> samples[k].labels]]

\* the batch for these indices: dataset[i] for each, collated; the first
\* exception a dataset[i] raises is the batch's
fetch(ld, indices) ==
    LET got == [k \in 1..Len(indices) |-> getitem(ld.dataset, indices[k])]
        bad == {k \in 1..Len(indices) : got[k].raised # ""}
    IN  IF bad # {}
        THEN Raised(got[CHOOSE k \in bad : \A j \in bad : k <= j].raised)
        ELSE Returned(collate([k \in 1..Len(indices) |-> got[k].value]))

\* Image.open(im_path) raises when the file cannot be opened; whether it can
\* is the state of the file system at the moment of the call
OpenErrors == {"FileNotFoundError"}

\* what fetching a batch may give: fetch's result when every image opens, else
\* the error of the first image that does not (__getitem__ computes the label
\* before it opens the image, so the first sample's label must not raise)
fetches(ld, indices) ==
    {fetch(ld, indices)} \cup
    {Raised(e) : e \in IF Len(indices) > 0
                           /\ getitem(ld.dataset, indices[1]).raised = ""
                        THEN OpenErrors ELSE {}}

----------------------------------------------------------------------------
(* DataLoader with num_workers > 0: the iterator hands index batches to its *)
(* worker processes and takes the fetched batches from one shared queue     *)

\* the number of batches per worker the iterator keeps requested ahead
prefetch_factor == 2

Idle == [idx |-> -1, index |-> <<>>]

NoPool == [send_idx |-> 0, rcvd_idx |-> 0, tasks_outstanding |-> 0, next_worker |-> 1,
           index_queues |-> <<>>, busy |-> <<>>, data_queue |-> <<>>, task_info |-> {}]

\* the workers and queues a new pass starts with
new_pool(num_workers) ==
    [NoPool EXCEPT !.index_queues = [w \in 1..num_workers |-> <<>>],
                   !.busy = [w \in 1..num_workers |-> Idle]]

\* _try_put_index: the sampler's next index batch, numbered send_idx, goes to
\* the next worker in turn; nothing happens when the sampler is used up
try_put_index(ld, s) ==
    IF exhausted(ld, s.it) THEN s
    ELSE [it   |-> advance(ld, s.it),
          pool |-> [s.pool EXCEPT
                       !.index_queues[s.pool.next_worker] =
                           Append(@, [idx |-> s.pool.send_idx,
                                      index |-> next_indices(ld, s.it)]),
                       !.send_idx = @ + 1,
                       !.tasks_outstanding = @ + 1,
                       !.next_worker = (@ % ld.num_workers) + 1]]

\* k calls of _try_put_index
RECURSIVE prime(_, _, _)
prime(ld, s, k) == IF k = 0 THEN s ELSE prime(ld, try_put_index(ld, s), k - 1)

\* iter(loader): fresh workers, prefetch_factor * num_workers batches requested
reset(ld, order) ==
    prime(ld, [it |-> iter(order), pool |-> new_pool(ld.num_workers)],
          prefetch_factor * ld.num_workers)

\* an iterator that hands out whatever batch arrives next
in_turn_any(p, idx) == TRUE

\* _next_data: is the batch taken from the queue the one that is due
in_turn(p, idx) == idx = p.rcvd_idx

\* _process_data: the batch is handed out, and one more is requested
process_data(ld, s) ==
    try_put_index(ld, [s EXCEPT !.pool.rcvd_idx = @ + 1])

----------------------------------------------------------------------------
(* The notebook: model, optimizer and the variables of the two cells *)

num_classes == 3
num_epochs == 2

HardLeavedPocketOrchid ==
    <<"H","a","r","d","-","l","e","a","v","e","d"," ",
      "P","o","c","k","e","t"," ","O","r","c","h","i","d">>
CanterburyBells ==
    <<"C","a","n","t","e","r","b","u","r","y"," ","B","e","l","l","s">>

cat_to_index == [i \in 0..2 |->
    IF i = 0 THEN PinkPrimrose ELSE IF i = 1 THEN HardLeavedPocketOrchid
    ELSE CanterburyBells]

\* the values loss.item() takes: a mean batch loss is 0 or positive; two
\* values tell the sums and quotients of the reports apart
LossValues == {0, 1}

\* the three datasets the notebook builds from the two files, one per mode;
\* a run of the notebook keeps them in `dataset`
Datasets == [mode \in Modes |-> FlowerDataset(annotations_csv, tags_csv, None, mode)]

train_dataset == dataset["train"]
valid_dataset == dataset["valid"]
test_dataset  == dataset["test"]

train_loader == DataLoader(train_dataset, 5, TRUE)
val_loader   == DataLoader(valid_dataset, 1, FALSE)
test_loader  == DataLoader(test_dataset, 1, FALSE)

dataset_size == [train |-> len(train_dataset), valid |-> len(valid_dataset)]

\* a quotient a / b of two numbers, kept exact
Quot(a, b) == [num |-> a, den |-> b]
QuotEq(q, r) == q.num * r.den = r.num * q.den

NoFile == [written |-> 0, rows |-> <<>>]

PyInit ==
    [epoch |-> -1, training_loss |-> 0, val_loss |-> 0, val_acc |-> Quot(0, 1),
     correct_preds |-> 0, best_acc |-> 0, validation |-> 0, total |-> 0,
     epoch_loss |-> Quot(0, 1), data |-> <<>>, outputs |-> <<>>, loss |-> 0,
     index |-> <<>>, pred_list |-> <<>>]

NoLog == [losses |-> <<>>, seen |-> <<>>, ops |-> <<>>, val_losses |-> <<>>]

\* the two parts of the network: the pretrained ResNet-18 layers and the new model.fc
Parts == {"backbone", "fc"}

\* models.resnet18(pretrained=True), `param.required_grad = False` on every
\* parameter (an attribute torch does not read: requires_grad stays True), then
\* model.fc replaced by a new head.  `version` counts the updates applied to a
\* part's parameters, `grad` the backward passes accumulated in their .grad,
\* `running_stats` the updates of the batch-norm buffers
PretrainedModel ==
    [training      |-> TRUE,
     requires_grad |-> [k \in Parts |-> TRUE],
     required_grad |-> [k \in Parts |-> IF k = "backbone" THEN "False" ELSE "unset"],
     version       |-> [k \in Parts |-> 0],
     grad          |-> [k \in Parts |-> 0],
     running_stats |-> 0]

\* optim.Adam(model.fc.parameters(), lr=0.001)
Adam == [steps |-> 0, params |-> {"fc"}]

\* the notebook's cells have not been run
NotebookIdle ==
    /\ pc = "idle"
    /\ py = PyInit
    /\ model = PretrainedModel
    /\ grad_enabled = TRUE
    /\ optimizer = Adam
    /\ stdout = <<>>
    /\ predictions_csv = NoFile
    /\ error = ""
    /\ log = NoLog

\* an epoch that starts with the accumulators as the last epoch left them
zero_accumulators_skipped(v) == v

\* training_loss = 0.0; val_loss = 0.0; val_acc = 0; correct_preds = 0;
\* best_acc = 0; validation = 0.0; total = 0
zero_accumulators(v) ==
    [v EXCEPT !.training_loss = 0, !.val_loss = 0, !.val_acc = Quot(0, 1),
              !.correct_preds = 0, !.best_acc = 0, !.validation = 0, !.total = 0]

\* model.train()
train(m) == [m EXCEPT !.training = TRUE]

\* a model.eval() that leaves the mode as it is
eval_skipped(m) == m

\* model.eval()
eval(m) == [m EXCEPT !.training = FALSE]

\* model(inputs): in training mode the batch-norm layers update their running
\* statistics; the parameters are only read
forward(m) == [m EXCEPT !.running_stats = IF m.training THEN @ + 1 ELSE @]

\* an optimizer.zero_grad() that leaves the gradients as they are
zero_grad_skipped(m, opt) == m

\* optimizer.zero_grad(): the gradients of the optimizer's parameters are reset
zero_grad(m, opt) ==
    [m EXCEPT !.grad = [k \in Parts |-> IF k \in opt.params THEN 0 ELSE @[k]]]

\* loss.backward(): every parameter that requires a gradient accumulates one
backward(m) ==
    [m EXCEPT !.grad = [k \in Parts |-> IF m.requires_grad[k] THEN @[k] + 1 ELSE @[k]]]

\* an optimizer built over model.parameters(): it updates every part
update_all(m, opt) ==
    [m EXCEPT !.version = [k \in Parts |-> IF m.grad[k] > 0 THEN @[k] + 1 ELSE @[k]]]

\* optimizer.step(), its effect on the network: the optimizer's parameters
\* that hold a gradient are updated
update(m, opt) ==
    [m EXCEPT !.version = [k \in Parts |->
                              IF k \in opt.params /\ m.grad[k] > 0 THEN @[k] + 1 ELSE @[k]]]

\* an optimizer.step() that does nothing
step_skipped(opt) == opt

\* optimizer.step()
step(opt) == [opt EXCEPT !.steps = @ + 1]

\* the training loss averaged over the batches of the epoch, not its samples
epoch_loss_per_batch(training_loss, n_samples) ==
    Quot(training_loss, (n_samples + 4) \div 5)

\* epoch_loss = training_loss / dataset_size['train']
epoch_loss_of(training_loss, n_samples) == Quot(training_loss, n_samples)

\* an accuracy that is a fraction, not a percentage
val_acc_fraction(correct_preds, total) == Quot(correct_preds, total)

\* val_acc = 100 * (correct_preds / total)
val_acc_of(correct_preds, total) == Quot(100 * correct_preds, total)

\* (index == labels).sum().item()
count_equal(index, labels) ==
    Cardinality({k \in 1..Len(labels) : index[k] = labels[k]})

\* the arg-max classes a forward pass may give for a batch of n images
Predictions(n) == [1..n -> 0..(num_classes - 1)]

----------------------------------------------------------------------------
(* The dataset adapter on its own: any two tables, any mode, any mapping *)

NoCall == [call |-> "", arg |-> 0, raised |-> "", value |-> <<>>]

Call(name, arg, r) == [call |-> name, arg |-> arg, raised |-> r.raised, value |-> r.value]

InitDataset ==
    /\ annotations_csv \in AnnotationTables(FileSeq(MaxFiles), ClassNames)
    /\ tags_csv \in TagTables(FileSeq(MaxFiles))
    /\ dataset = NoDataset
    /\ ret = NoCall
    /\ loader = NoLoader /\ it = NoIter /\ batches = <<>> /\ passes = 0 /\ pool = NoPool
    /\ NotebookIdle

Construct(mode, mapping) ==
    /\ ~dataset.built
    /\ dataset' = FlowerDataset(annotations_csv, tags_csv, mapping, mode)
    /\ UNCHANGED <<annotations_csv, tags_csv, ret, ldvars, nbvars>>

CallLen ==
    /\ dataset.built
    /\ ret' = Call("__len__", 0, Returned(len(dataset)))
    /\ UNCHANGED <<annotations_csv, tags_csv, dataset, ldvars, nbvars>>

CallGetItem(idx) ==
    /\ dataset.built
    /\ ret' = Call("__getitem__", idx, getitem(dataset, idx))
    /\ UNCHANGED <<annotations_csv, tags_csv, dataset, ldvars, nbvars>>

NextDataset ==
    \/ \E mode \in Modes, mapping \in Mappings : Construct(mode, mapping)
    \/ CallLen
    \/ \E idx \in 0..MaxFiles : CallGetItem(idx)

SpecDataset == InitDataset /\ [][NextDataset]_vars

----------------------------------------------------------------------------
(* The training cell *)

InitNotebook ==
    \E n_test \in 0..MaxTest, n_valid \in 0..MaxValid, n_train \in 0..MaxTrain,
       named \in BOOLEAN :
        /\ n_test + n_valid + n_train <= MaxImages
        /\ annotations_csv = PipelineAnnotations(n_test + n_valid + n_train, named)
        /\ tags_csv = PipelineTags(n_test, n_valid, n_train)
        /\ dataset = Datasets /\ ret = NoCall
        /\ loader = NoLoader /\ it = NoIter /\ batches = <<>> /\ passes = 0 /\ pool = NoPool
        /\ pc = "build_loaders"
        /\ py = PyInit
        /\ model = PretrainedModel
        /\ grad_enabled = TRUE
        /\ optimizer = Adam
        /\ stdout = <<>>
        /\ predictions_csv = NoFile
        /\ error = ""
        /\ log = NoLog

\* an exception leaves the cell; a `with torch.no_grad()` block it passes
\* through switches gradient tracking back on
Raise(e) ==
    /\ pc' = "error"
    /\ error' = e
    /\ grad_enabled' = TRUE

\* DataLoader(ds, shuffle=..): what building the loader may raise.  A shuffling
\* loader builds a RandomSampler, which rejects an empty dataset with
\* ValueError in most torch releases and accepts it in the oldest; the
\* notebook pins no release, so both outcomes are kept ("": built)
build_outcomes(ld) ==
    IF ld.shuffle /\ len(ld.dataset) = 0 THEN {"", "ValueError"} ELSE {""}

\* train_loader = DataLoader(...); val_loader = ...; test_loader = ...
BuildLoaders ==
    /\ pc = "build_loaders"
    /\ \E e \in build_outcomes(train_loader) \cup build_outcomes(val_loader)
                \cup build_outcomes(test_loader) :
          IF e # "" THEN Raise(e)
          ELSE pc' = "for_epoch" /\ UNCHANGED <<error, grad_enabled>>
    /\ UNCHANGED <<dsvars, ldvars, py, model, optimizer, stdout, predictions_csv, log>>

\* for epoch in range(num_epochs):
ForEpoch ==
    /\ pc = "for_epoch"
    /\ IF py.epoch + 1 < num_epochs
       THEN /\ py' = [py EXCEPT !.epoch = @ + 1]
            /\ pc' = "epoch_setup"
       ELSE /\ pc' = "infer_setup"
            /\ UNCHANGED py
    /\ UNCHANGED <<dsvars, ldvars, model, grad_enabled, optimizer, stdout,
                   predictions_csv, error, log>>

\* model.train(); training_loss = 0.0; ...; total = 0; tqdm(data_loaders['train'])
EpochSetup ==
    /\ pc = "epoch_setup"
    /\ model' = train(model)
    /\ py' = zero_accumulators(py)
    /\ stdout' = <<[epoch_number |-> py.epoch + 1]>>
    /\ log' = NoLog
    /\ pc' = "train_iter"
    /\ UNCHANGED <<dsvars, ldvars, grad_enabled, optimizer, predictions_csv, error>>

\* for x, data in enumerate(train_data_loader): the pass begins
TrainIter ==
    /\ pc = "train_iter"
    /\ \E order \in Orders(train_loader) : it' = iter(order)
    /\ pc' = "for_train"
    /\ UNCHANGED <<dsvars, loader, batches, passes, pool, py, model, grad_enabled,
                   optimizer, stdout, predictions_csv, error, log>>

\* for x, data in enumerate(train_data_loader): the next batch, or the end
ForTrain ==
    /\ pc = "for_train"
    /\ IF exhausted(train_loader, it)
       THEN /\ it' = stop(it)
            /\ pc' = "epoch_loss"
            /\ UNCHANGED <<py, error, grad_enabled>>
       ELSE \E got \in fetches(train_loader, next_indices(train_loader, it)) :
                /\ it' = advance(train_loader, it)
                /\ IF got.raised # ""
                   THEN Raise(got.raised) /\ UNCHANGED py
                   ELSE /\ py' = [py EXCEPT !.data = got.value]
                        /\ pc' = "forward"
                        /\ UNCHANGED <<error, grad_enabled>>
    /\ log' = [log EXCEPT !.ops = <<>>]
    /\ UNCHANGED <<dsvars, loader, batches, passes, pool, model, optimizer, stdout,
                   predictions_csv>>

\* inputs, labels = data['im'], data['labels']; outputs = model(inputs)
Forward ==
    /\ pc = "forward"
    /\ py' = [py EXCEPT !.outputs = [k \in 1..Len(py.data.im) |-> "log-probabilities"]]
    /\ model' = forward(model)
    /\ log' = [log EXCEPT !.ops = Append(@, "forward")]
    /\ pc' = "zero_grad"
    /\ UNCHANGED <<dsvars, ldvars, grad_enabled, optimizer, stdout,
                   predictions_csv, error>>

\* optimizer.zero_grad()
ZeroGrad ==
    /\ pc = "zero_grad"
    /\ model' = zero_grad(model, optimizer)
    /\ log' = [log EXCEPT !.ops = Append(@, "zero_grad")]
    /\ pc' = "loss"
    /\ UNCHANGED <<dsvars, ldvars, py, grad_enabled, optimizer, stdout,
                   predictions_csv, error>>

\* loss = criterion(outputs, labels): the mean loss of the batch
Loss ==
    /\ pc = "loss"
    /\ \E l \in LossValues : py' = [py EXCEPT !.loss = l]
    /\ log' = [log EXCEPT !.ops = Append(@, "loss")]
    /\ pc' = "backward"
    /\ UNCHANGED <<dsvars, ldvars, model, grad_enabled, optimizer, stdout,
                   predictions_csv, error>>

\* loss.backward()
Backward ==
    /\ pc = "backward"
    /\ model' = backward(model)
    /\ log' = [log EXCEPT !.ops = Append(@, "backward")]
    /\ pc' = "step"
    /\ UNCHANGED <<dsvars, ldvars, py, grad_enabled, optimizer, stdout,
                   predictions_csv, error>>

\* optimizer.step()
Step ==
    /\ pc = "step"
    /\ optimizer' = step(optimizer)
    /\ model' = update(model, optimizer)
    /\ log' = [log EXCEPT !.ops = Append(@, "step")]
    /\ pc' = "accumulate"
    /\ UNCHANGED <<dsvars, ldvars, py, grad_enabled, stdout,
                   predictions_csv, error>>

\* training_loss += loss.item()
Accumulate ==
    /\ pc = "accumulate"
    /\ py' = [py EXCEPT !.training_loss = @ + py.loss]
    /\ log' = [log EXCEPT !.losses = Append(@, py.loss),
                          !.ops = Append(@, "accumulate")]
    /\ pc' = "for_train"
    /\ UNCHANGED <<dsvars, ldvars, model, grad_enabled, optimizer, stdout,
                   predictions_csv, error>>

\* epoch_loss = training_loss / dataset_size['train']; print; tqdm(data_loaders['valid'])
EpochLoss ==
    /\ pc = "epoch_loss"
    /\ IF dataset_size.train = 0
       THEN Raise("ZeroDivisionError") /\ UNCHANGED <<py, stdout>>
       ELSE /\ py' = [py EXCEPT !.epoch_loss =
                                    epoch_loss_of(py.training_loss, dataset_size.train)]
            /\ stdout' = Append(stdout, [training_loss |-> py'.epoch_loss])
            /\ pc' = "valid_iter"
            /\ UNCHANGED <<error, grad_enabled>>
    /\ UNCHANGED <<dsvars, ldvars, model, optimizer, predictions_csv, log>>

\* with torch.no_grad(): model.eval(); for x, data in enumerate(valid_data_loader):
ValidIter ==
    /\ pc = "valid_iter"
    /\ grad_enabled' = FALSE
    /\ model' = eval(model)
    /\ \E order \in Orders(val_loader) : it' = iter(order)
    /\ pc' = "for_valid"
    /\ UNCHANGED <<dsvars, loader, batches, passes, pool, py, optimizer, stdout,
                   predictions_csv, error, log>>

\* for x, data in enumerate(valid_data_loader): the next batch, or the end
ForValid ==
    /\ pc = "for_valid"
    /\ IF exhausted(val_loader, it)
       THEN /\ it' = stop(it)
            /\ pc' = "val_acc"
            /\ UNCHANGED <<py, error, grad_enabled>>
       ELSE \E got \in fetches(val_loader, next_indices(val_loader, it)) :
                /\ it' = advance(val_loader, it)
                /\ IF got.raised # ""
                   THEN Raise(got.raised) /\ UNCHANGED py
                   ELSE /\ py' = [py EXCEPT !.data = got.value]
                        /\ pc' = "val_forward"
                        /\ UNCHANGED <<error, grad_enabled>>
    /\ UNCHANGED <<dsvars, loader, batches, passes, pool, model, optimizer, stdout,
                   predictions_csv, log>>

\* outputs = model(inputs); val_loss = criterion(outputs, labels);
\* _, index = torch.max(outputs, 1)
ValForward ==
    /\ pc = "val_forward"
    /\ \E l \in LossValues, index \in Predictions(Len(py.data.im)) :
          py' = [py EXCEPT !.outputs = [k \in 1..Len(py.data.im) |-> "log-probabilities"],
                           !.val_loss = l, !.index = index]
    /\ model' = forward(model)
    /\ pc' = "val_count"
    /\ UNCHANGED <<dsvars, ldvars, grad_enabled, optimizer, stdout,
                   predictions_csv, error, log>>

\* total += labels.size(0); correct_preds += (index == labels).sum().item();
\* validation += val_loss.item()
ValCount ==
    /\ pc = "val_count"
    /\ py' = [py EXCEPT !.total = @ + Len(py.data.labels),
                        !.correct_preds = @ + count_equal(py.index, py.data.labels),
                        !.validation = @ + py.val_loss]
    /\ log' = [log EXCEPT !.seen = @ \o [k \in 1..Len(py.data.labels) |->
                                [index |-> py.index[k], label |-> py.data.labels[k]]],
                          !.val_losses = Append(@, py.val_loss)]
    /\ pc' = "for_valid"
    /\ UNCHANGED <<dsvars, ldvars, model, grad_enabled, optimizer, stdout,
                   predictions_csv, error>>

\* an accuracy computation that is guarded against an empty validation pass
ValAcc_guarded ==
    /\ pc = "val_acc"
    /\ py' = [py EXCEPT !.val_acc = IF py.total = 0 THEN Quot(0, 1)
                                    ELSE val_acc_of(py.correct_preds, py.total)]
    /\ pc' = "val_print"
    /\ UNCHANGED <<dsvars, ldvars, model, grad_enabled, optimizer, stdout,
                   predictions_csv, error, log>>

\* val_acc = 100 * (correct_preds / total)
ValAcc ==
    /\ pc = "val_acc"
    /\ IF py.total = 0
       THEN Raise("ZeroDivisionError") /\ UNCHANGED py
       ELSE /\ py' = [py EXCEPT !.val_acc = val_acc_of(py.correct_preds, py.total)]
            /\ pc' = "val_print"
            /\ UNCHANGED <<error, grad_enabled>>
    /\ UNCHANGED <<dsvars, ldvars, model, optimizer, stdout, predictions_csv, log>>

\* print(validation / dataset_size['valid']); print(val_acc); the with block ends
ValPrint ==
    /\ pc = "val_print"
    /\ IF dataset_size.valid = 0
       THEN Raise("ZeroDivisionError") /\ UNCHANGED stdout
       ELSE /\ stdout' = Append(stdout,
                    [validation_loss |-> Quot(py.validation, dataset_size.valid),
                     validation_accuracy |-> py.val_acc])
            /\ grad_enabled' = TRUE
            /\ pc' = "for_epoch"
            /\ UNCHANGED error
    /\ UNCHANGED <<dsvars, ldvars, py, model, optimizer, predictions_csv, log>>

TrainingCell ==
    \/ BuildLoaders \/ ForEpoch \/ EpochSetup
    \/ TrainIter \/ ForTrain \/ Forward \/ ZeroGrad \/ Loss \/ Backward \/ Step
    \/ Accumulate \/ EpochLoss
    \/ ValidIter \/ ForValid \/ ValForward \/ ValCount \/ ValAcc \/ ValPrint

----------------------------------------------------------------------------
(* The inference cell *)

\* d[k] = v on a dict, which keeps its keys in insertion order
put(d, k, v) ==
    IF \E i \in 1..Len(d) : d[i].key = k
    THEN [i \in 1..Len(d) |-> IF d[i].key = k THEN [key |-> k, value |-> v] ELSE d[i]]
    ELSE Append(d, [key |-> k, value |-> v])

\* the key the inference cell files a prediction under
prediction_key(im_name) == basename(im_name[1])

\* pd.DataFrame(pred_list.items(), columns=['file_name', 'class_name'])
DataFrame(items) ==
    [i \in 1..Len(items) |-> [file_name |-> items[i].key, class_name |-> items[i].value]]

\* model.eval(); total = 0; correct_preds = 0; pred_list = {}
InferSetup ==
    /\ pc = "infer_setup"
    /\ model' = eval(model)
    /\ py' = [py EXCEPT !.total = 0, !.correct_preds = 0, !.pred_list = <<>>]
    /\ log' = NoLog
    /\ pc' = "test_iter"
    /\ UNCHANGED <<dsvars, ldvars, grad_enabled, optimizer, stdout,
                   predictions_csv, error>>

\* with torch.no_grad(): for x, data in enumerate(test_data_loader):
TestIter ==
    /\ pc = "test_iter"
    /\ grad_enabled' = FALSE
    /\ \E order \in Orders(test_loader) : it' = iter(order)
    /\ pc' = "for_test"
    /\ UNCHANGED <<dsvars, loader, batches, passes, pool, py, model, optimizer, stdout,
                   predictions_csv, error, log>>

\* for x, data in enumerate(test_data_loader): the next batch, or the end
ForTest ==
    /\ pc = "for_test"
    /\ IF exhausted(test_loader, it)
       THEN /\ it' = stop(it)
            /\ grad_enabled' = TRUE
            /\ pc' = "write_csv"
            /\ UNCHANGED <<py, error>>
       ELSE \E got \in fetches(test_loader, next_indices(test_loader, it)) :
                /\ it' = advance(test_loader, it)
                /\ IF got.raised # ""
                   THEN Raise(got.raised) /\ UNCHANGED py
                   ELSE /\ py' = [py EXCEPT !.data = got.value]
                        /\ pc' = "test_forward"
                        /\ UNCHANGED <<error, grad_enabled>>
    /\ UNCHANGED <<dsvars, loader, batches, passes, pool, model, optimizer, stdout,
                   predictions_csv, log>>

\* pred = model(single_im); _, index = torch.max(pred, 1)
TestForward ==
    /\ pc = "test_forward"
    /\ \E index \in Predictions(Len(py.data.im)) :
          py' = [py EXCEPT !.outputs = [k \in 1..Len(py.data.im) |-> "log-probabilities"],
                           !.index = index]
    /\ model' = forward(model)
    /\ pc' = "test_record"
    /\ UNCHANGED <<dsvars, ldvars, grad_enabled, optimizer, stdout,
                   predictions_csv, error, log>>

\* a loop body that rewrites the predictions file after every test batch
TestRecord_flushing ==
    /\ pc = "test_record"
    /\ py' = [py EXCEPT !.total = @ + Len(py.data.labels),
                        !.correct_preds = @ + count_equal(py.index, py.data.labels),
                        !.pred_list = put(@, prediction_key(py.data.im_name),
                                          cat_to_index[py.index[1]])]
    /\ predictions_csv' = [written |-> predictions_csv.written + 1,
                           rows    |-> DataFrame(py'.pred_list)]
    /\ log' = [log EXCEPT !.seen = @ \o [k \in 1..Len(py.data.labels) |->
                                [index |-> py.index[k], label |-> py.data.labels[k]]]]
    /\ pc' = "for_test"
    /\ UNCHANGED <<dsvars, ldvars, model, grad_enabled, optimizer, stdout, error>>

\* total += label.size(0); correct_preds += (index == label).sum().item();
\* pred_list[os.path.basename(im_name[0])] = cat_to_index[index.item()]
TestRecord ==
    /\ pc = "test_record"
    /\ py' = [py EXCEPT !.total = @ + Len(py.data.labels),
                        !.correct_preds = @ + count_equal(py.index, py.data.labels),
                        !.pred_list = put(@, prediction_key(py.data.im_name),
                                          cat_to_index[py.index[1]])]
    /\ log' = [log EXCEPT !.seen = @ \o [k \in 1..Len(py.data.labels) |->
                                [index |-> py.index[k], label |-> py.data.labels[k]]]]
    /\ pc' = "for_test"
    /\ UNCHANGED <<dsvars, ldvars, model, grad_enabled, optimizer, stdout,
                   predictions_csv, error>>

\* df = pd.DataFrame(pred_list.items(), ...); df.to_csv(f, index=False)
WriteCsv ==
    /\ pc = "write_csv"
    /\ predictions_csv' = [written |-> predictions_csv.written + 1,
                           rows    |-> DataFrame(py.pred_list)]
    /\ pc' = "print_accuracy"
    /\ UNCHANGED <<dsvars, ldvars, py, model, grad_enabled, optimizer, stdout, error, log>>

\* print('Accuracy ...' % (100 * (correct_preds / total)))
PrintAccuracy ==
    /\ pc = "print_accuracy"
    /\ IF py.total = 0
       THEN Raise("ZeroDivisionError") /\ UNCHANGED stdout
       ELSE /\ stdout' = Append(stdout,
                    [test_accuracy |-> Quot(100 * py.correct_preds, py.total)])
            /\ pc' = "done"
            /\ UNCHANGED <<error, grad_enabled>>
    /\ UNCHANGED <<dsvars, ldvars, py, model, optimizer, predictions_csv, log>>

InferenceCell ==
    \/ InferSetup \/ TestIter \/ ForTest \/ TestForward \/ TestRecord
    \/ WriteCsv \/ PrintAccuracy

Next == TrainingCell \/ InferenceCell

Spec == InitNotebook /\ [][Next]_vars

----------------------------------------------------------------------------
(* Claims about the dataset adapter, checked under SpecDataset *)

\* the tag the split table gives file f, "" when it has no row for f
TagInCsv(f) ==
    IF \E j \in 1..Len(tags_csv) : tags_csv[j].file_name = f
    THEN tags_csv[CHOOSE j \in 1..Len(tags_csv) : tags_csv[j].file_name = f].tag
    ELSE ""

HasLabel(f) == \E i \in 1..Len(annotations_csv) : annotations_csv[i].file_name = f

\* the class name of file f as annotations.csv writes it
ClassInCsv(f) ==
    annotations_csv[CHOOSE i \in 1..Len(annotations_csv) :
                        annotations_csv[i].file_name = f].class_name

\* the split-table rows tagged s whose file also has a label row
TaggedAndLabelled(s) ==
    {j \in 1..Len(tags_csv) : tags_csv[j].tag = s /\ HasLabel(tags_csv[j].file_name)}

C5_MappingLookup ==
    (/\ ret.call = "__getitem__"
     /\ dataset.mapping.given
     /\ ret.arg + 1 \in 1..Len(dataset.data)) =>
        LET key == Lower(ClassInCsv(dataset.data[ret.arg + 1].file_name))
        IN  IF key \in DOMAIN dataset.mapping.map
            THEN ret.raised = "" /\ ret.value.labels = dataset.mapping.map[key]
            ELSE ret.raised = "KeyError"

C9_UntaggedExcluded ==
    dataset.built =>
        \A i \in 1..Len(annotations_csv) :
            TagInCsv(annotations_csv[i].file_name) = "" =>
                \A k \in 1..Len(dataset.data) :
                    dataset.data[k].file_name # annotations_csv[i].file_name

\* an index was built, with rows in it, from a label table that has an
\* untagged row
C9_Witness ==
    /\ dataset.built
    /\ Len(dataset.data) > 0
    /\ \E i \in 1..Len(annotations_csv) : TagInCsv(annotations_csv[i].file_name) = ""

\* C10: when no labelled file carries the requested tag, the index is built
\* and is empty, and __len__ returns 0 rather than raising.
C10_EmptySplit ==
    (/\ dataset.built
     /\ \A i \in 1..Len(annotations_csv) :
            TagInCsv(annotations_csv[i].file_name) # dataset.mode) =>
        /\ dataset.data = <<>>
        /\ ret.call = "__len__" => (ret.raised = "" /\ ret.value = 0)

\* __len__ was called on the index of a split no labelled file belongs to,
\* although the tables are not empty
C10_Witness ==
    /\ dataset.built
    /\ ret.call = "__len__"
    /\ Len(annotations_csv) > 0 /\ Len(tags_csv) > 0
    /\ \A i \in 1..Len(annotations_csv) :
            TagInCsv(annotations_csv[i].file_name) # dataset.mode

----------------------------------------------------------------------------
(* A batch iterator on its own: any dataset length, batch size and shuffle flag *)

InitLoader ==
    \E n \in 0..MaxLen, batch_size \in 1..MaxBatch, shuffle \in BOOLEAN :
        /\ annotations_csv = PipelineAnnotations(n, FALSE)
        /\ tags_csv = PipelineTags(0, 0, n)
        /\ dataset = FlowerDataset(annotations_csv, tags_csv, None, "train")
        /\ ret = NoCall
        /\ loader = DataLoader(dataset, batch_size, shuffle)
        /\ it = NoIter
        /\ batches = <<>>
        /\ passes = 0
        /\ pool = NoPool
        /\ NotebookIdle

\* for ... in loader: a new pass starts from scratch
Iter ==
    /\ it.state # "iterating"
    /\ passes < MaxPasses
    /\ \E order \in Orders(loader) : it' = iter(order)
    /\ batches' = <<>>
    /\ passes' = passes + 1
    /\ UNCHANGED <<dsvars, loader, pool, nbvars>>

\* next(iterator): the next batch of indices, or the end of the pass
NextBatch ==
    /\ it.state = "iterating"
    /\ IF exhausted(loader, it)
       THEN it' = stop(it) /\ UNCHANGED batches
       ELSE /\ batches' = Append(batches, next_indices(loader, it))
            /\ it' = advance(loader, it)
    /\ UNCHANGED <<dsvars, loader, passes, pool, nbvars>>

NextLoader == Iter \/ NextBatch

SpecLoader == InitLoader /\ [][NextLoader]_vars

RECURSIVE Concat(_)
Concat(ss) == IF ss = <<>> THEN <<>> ELSE Head(ss) \o Concat(Tail(ss))

\* how often index i occurs in the batches
Occurrences(bs, i) ==
    Cardinality({k \in 1..Len(Concat(bs)) : Concat(bs)[k] = i})

\* C3: a full pass over N samples with batch size B yields ceil(N/B) batches
\* whose sizes sum to N, every index in [0, N) is in exactly one batch, only the
\* last batch may be smaller than B, and without shuffling the batches
\* concatenate to 0, 1, ..., N-1.
C3_FullPass ==
    it.state = "exhausted" =>
        LET N == len(loader.dataset)
            B == loader.batch_size
        IN  /\ Len(batches) = (N + B - 1) \div B
            /\ Len(Concat(batches)) = N
            /\ \A i \in 0..(N - 1) : Occurrences(batches, i) = 1
            /\ \A k \in 1..Len(batches) :
                  /\ Len(batches[k]) \in 1..B
                  /\ k < Len(batches) => Len(batches[k]) = B
            /\ ~loader.shuffle => Concat(batches) = InOrder(N)

\* a shuffled second pass over 4 samples in batches of 3 ended out of index order
C3_Witness ==
    /\ it.state = "exhausted"
    /\ passes = 2
    /\ loader.shuffle /\ loader.batch_size = 3 /\ len(loader.dataset) = 4
    /\ Concat(batches) # InOrder(4)
    /\ Len(batches) = 2

----------------------------------------------------------------------------
(* A batch iterator with worker processes on its own: any dataset length,   *)
(* batch size, shuffle flag and number of workers                           *)

InitWorkers ==
    \E n \in 0..MaxLen, batch_size \in 1..MaxBatch, shuffle \in BOOLEAN,
       num_workers \in 1..MaxWorkers :
        /\ annotations_csv = PipelineAnnotations(n, FALSE)
        /\ tags_csv = PipelineTags(0, 0, n)
        /\ dataset = FlowerDataset(annotations_csv, tags_csv, None, "train")
        /\ ret = NoCall
        /\ loader = [DataLoader(dataset, batch_size, shuffle)
                        EXCEPT !.num_workers = num_workers]
        /\ it = NoIter
        /\ batches = <<>>
        /\ passes = 0
        /\ pool = NoPool
        /\ NotebookIdle

\* for ... in loader: a new pass starts its workers and requests the first batches
WorkersIter ==
    /\ it.state # "iterating"
    /\ passes < MaxPasses
    /\ \E order \in Orders(loader) :
          /\ it' = reset(loader, order).it
          /\ pool' = reset(loader, order).pool
    /\ batches' = <<>>
    /\ passes' = passes + 1
    /\ UNCHANGED <<dsvars, loader, nbvars>>

\* worker w: r = index_queue.get()
WorkerGet(w) ==
    /\ it.state = "iterating"
    /\ pool.busy[w] = Idle
    /\ pool.index_queues[w] # <<>>
    /\ pool' = [pool EXCEPT !.busy[w] = Head(pool.index_queues[w]),
                            !.index_queues[w] = Tail(@)]
    /\ UNCHANGED <<dsvars, loader, it, batches, passes, nbvars>>

\* worker w: data = fetcher.fetch(index); data_queue.put((idx, data))
WorkerPut(w) ==
    /\ it.state = "iterating"
    /\ pool.busy[w] # Idle
    /\ pool' = [pool EXCEPT !.data_queue =
                                Append(@, [idx  |-> pool.busy[w].idx,
                                           data |-> fetch(loader, pool.busy[w].index)]),
                            !.busy[w] = Idle]
    /\ UNCHANGED <<dsvars, loader, it, batches, passes, nbvars>>

\* next(iterator), one round of _next_data: the pass ends when every requested
\* batch was handed out; the batch that is due is handed out from the cache or
\* from the queue; a batch that arrives ahead of its turn is put in the cache
NextData ==
    /\ it.state = "iterating"
    /\ IF pool.rcvd_idx = pool.send_idx
       THEN it' = stop(it) /\ UNCHANGED <<batches, pool>>
       ELSE IF \E c \in pool.task_info : c.idx = pool.rcvd_idx
       THEN LET c == CHOOSE c \in pool.task_info : c.idx = pool.rcvd_idx
                s == process_data(loader,
                         [it |-> it, pool |-> [pool EXCEPT !.task_info = @ \ {c}]])
            IN  /\ it' = s.it /\ pool' = s.pool
                /\ batches' = Append(batches, c.data)
       ELSE /\ pool.data_queue # <<>>
            /\ LET got == Head(pool.data_queue)
                   p == [pool EXCEPT !.data_queue = Tail(@),
                                     !.tasks_outstanding = @ - 1]
               IN  IF in_turn(p, got.idx)
                   THEN LET s == process_data(loader, [it |-> it, pool |-> p])
                        IN  /\ it' = s.it /\ pool' = s.pool
                            /\ batches' = Append(batches, got.data)
                   ELSE /\ pool' = [p EXCEPT !.task_info = @ \cup {got}]
                        /\ UNCHANGED <<it, batches>>
    /\ UNCHANGED <<dsvars, loader, passes, nbvars>>

NextWorkers ==
    \/ WorkersIter
    \/ \E w \in 1..loader.num_workers : WorkerGet(w)
    \/ \E w \in 1..loader.num_workers : WorkerPut(w)
    \/ NextData

SpecWorkers == InitWorkers /\ [][NextWorkers]_vars

\* the indices of the k-th batch of the pass: the k-th run of batch_size
\* indices of the sampler's order
Due(k) ==
    SubSeq(it.order, (k - 1) * loader.batch_size + 1,
           Min(k * loader.batch_size, Len(it.order)))

\* C12: whatever the workers' interleaving, the batches handed to the consumer
\* follow the order of the pass's index permutation: the k-th batch handed out
\* holds the samples of the k-th run of indices, inside the batch in the
\* permutation's order, and a finished pass has handed out every batch.
C12_OrderKept ==
    /\ \A k \in 1..Len(batches) :
          /\ batches[k] = fetch(loader, Due(k))
          /\ batches[k].value.im =
                 [j \in 1..Len(Due(k)) |->
                     Image(loader.dataset.data[Due(k)[j] + 1].file_name)]
    /\ it.state = "exhausted" =>
          Len(batches) = (Len(it.order) + loader.batch_size - 1) \div loader.batch_size

\* two workers, a shuffled pass: two batches were handed out in order while a
\* later batch, fetched ahead of the one that is due, waits in the cache
C12_Witness ==
    /\ loader.num_workers = 2 /\ loader.shuffle
    /\ it.order # InOrder(Len(it.order))
    /\ Len(batches) = 2
    /\ \E c \in pool.task_info : c.idx > pool.rcvd_idx

----------------------------------------------------------------------------
(* Claims about the two cells of the notebook, checked under Spec *)

RECURSIVE Sum(_)
Sum(xs) == IF xs = <<>> THEN 0 ELSE Head(xs) + Sum(Tail(xs))

\* the statements of one training batch, after the batch was fetched
BatchPcs == {"forward", "zero_grad", "loss", "backward", "step", "accumulate"}
ValidationPcs == {"valid_iter", "for_valid", "val_forward", "val_count",
                  "val_acc", "val_print"}
InferencePcs == {"infer_setup", "test_iter", "for_test", "test_forward",
                 "test_record", "write_csv", "print_accuracy", "done"}

\* ceil(N / B) for the training set and the training loader
BatchesPerEpoch ==
    (len(train_dataset) + train_loader.batch_size - 1) \div train_loader.batch_size

\* C4: every epoch invokes optimizer.step() once per training batch, that is
\* ceil(N/B) times, so after E completed epochs it was invoked E * ceil(N/B)
\* times; no step is taken during a validation or an inference pass.
C4_StepsPerEpoch ==
    /\ pc \in {"epoch_setup", "train_iter"} =>
          optimizer.steps = py.epoch * BatchesPerEpoch
    /\ pc \in BatchPcs \cup {"for_train"} =>
          optimizer.steps = py.epoch * BatchesPerEpoch + Len(log.losses)
                            + (IF pc = "accumulate" THEN 1 ELSE 0)
    /\ pc \in ValidationPcs \cup {"epoch_loss", "for_epoch"} =>
          optimizer.steps = (py.epoch + 1) * BatchesPerEpoch
    /\ pc \in InferencePcs =>
          optimizer.steps = num_epochs * BatchesPerEpoch

\* both epochs and the inference pass are over, 6 training files, 2 batches an epoch
C4_Witness ==
    /\ pc = "done"
    /\ len(train_dataset) = 6
    /\ optimizer.steps = 4

\* the validation samples of the pass whose arg-max class equals their label
CorrectSeen == {k \in 1..Len(log.seen) : log.seen[k].index = log.seen[k].label}

\* the class the label table gives the k-th validation file
TrueClass(k) == ParseInt(ClassInCsv(valid_dataset.data[k].file_name))

\* C6: the validation accuracy reported at the end of an epoch's validation
\* pass is 100 * correct_count / total_count over the samples of that pass;
\* with one validation sample and a prediction of class 0 it is 100 when the
\* sample's true class is 0 and 0 otherwise.
C6_ValidationAccuracy ==
    (pc = "for_epoch" /\ py.epoch >= 0) =>
        LET reported == stdout[Len(stdout)].validation_accuracy
        IN  /\ Len(log.seen) = len(valid_dataset)
            /\ \A k \in 1..Len(log.seen) : log.seen[k].label = TrueClass(k)
            /\ QuotEq(reported, Quot(100 * Cardinality(CorrectSeen), Len(log.seen)))
            /\ QuotEq(reported, py.val_acc)
            /\ (Len(log.seen) = 1 /\ log.seen[1].index = 0) =>
                   QuotEq(reported, Quot(IF TrueClass(1) = 0 THEN 100 ELSE 0, 1))

\* an epoch ended with one of two validation samples predicted correctly: 50 %
C6_Witness ==
    /\ pc = "for_epoch" /\ py.epoch >= 0
    /\ Len(log.seen) = 2
    /\ Cardinality(CorrectSeen) = 1
    /\ QuotEq(stdout[Len(stdout)].validation_accuracy, Quot(50, 1))

\* C7: the training loss reported for an epoch is the sum of the mean losses
\* of the epoch's training batches divided by the number of training samples.
C7_TrainingLoss ==
    pc \in ValidationPcs =>
        /\ Len(log.losses) = BatchesPerEpoch
        /\ QuotEq(stdout[2].training_loss,
                  Quot(Sum(log.losses), len(train_dataset)))

\* an epoch over 6 training samples in two batches of loss 1 each reported 2/6
C7_Witness ==
    /\ pc = "valid_iter"
    /\ len(train_dataset) = 6
    /\ log.losses = <<1, 1>>
    /\ QuotEq(stdout[2].training_loss, Quot(1, 3))

\* the distinct file names of the test split
TestFiles == {test_dataset.data[k].file_name : k \in 1..Len(test_dataset.data)}

\* C1 (as claimed): once the inference pass has written the predictions CSV,
\* the file has one data row for each of the K distinct file names of the test
\* split, and each of these files is named by exactly one row (a row names a
\* file by the name the cell files its prediction under).
C1_OneRowPerFile ==
    predictions_csv.written > 0 =>
        /\ Len(predictions_csv.rows) = Cardinality(TestFiles)
        /\ \A f \in TestFiles :
              Cardinality({i \in 1..Len(predictions_csv.rows) :
                            predictions_csv.rows[i].file_name = basename(f)}) = 1
        /\ \A i, j \in 1..Len(predictions_csv.rows) :
              predictions_csv.rows[i].file_name = predictions_csv.rows[j].file_name
                  => i = j

\* C11: the predictions CSV is written exactly once by an inference run and
\* only after every test batch has been processed: a written file holds the
\* predictions of the whole pass, a run that got past the pass has written it
\* once, and a run that a failing batch ended has its error and no file, not
\* even a partial one.
C11_WrittenOnceAfterPass ==
    /\ predictions_csv.written <= 1
    /\ predictions_csv.written = 1 =>
          /\ pc \in {"print_accuracy", "done", "error"}
          /\ it.state = "exhausted"
          /\ Len(log.seen) = len(test_dataset)
          /\ predictions_csv.rows = DataFrame(py.pred_list)
    /\ pc \in {"print_accuracy", "done"} => predictions_csv.written = 1
    /\ pc \in InferencePcs \ {"print_accuracy", "done"} => predictions_csv = NoFile
    /\ (pc = "error" /\ it.state = "iterating") =>
          /\ error # ""
          /\ predictions_csv = NoFile

\* the second test batch failed after the first was recorded: no file
C11_Witness ==
    /\ pc = "error" /\ error = "FileNotFoundError"
    /\ it.state = "iterating" /\ it.pos = 2
    /\ Len(py.pred_list) = 1
    /\ predictions_csv = NoFile

\* the statements of one training batch in the order of the loop body
CodeOrder == <<"forward", "zero_grad", "loss", "backward", "step", "accumulate">>

\* a is an initial part of b
IsPrefix(a, b) == Len(a) <= Len(b) /\ a = SubSeq(b, 1, Len(a))

\* gradients are zeroed before the backward pass of the same batch, which
\* leaves the gradient of that batch alone for the optimizer step
ZeroedBeforeBackward ==
    /\ pc = "backward" => model.grad["fc"] = 0
    /\ pc = "step" => model.grad["fc"] = 1

\* the parameters change only in the optimizer step, once per step, and the
\* step starts after the batch's backward pass and ends before the next forward
OnlyStepChangesParameters ==
    /\ model.version' # model.version =>
          /\ pc = "step" /\ pc' = "accumulate"
          /\ "backward" = log.ops[Len(log.ops)]
          /\ optimizer'.steps = optimizer.steps + 1
    /\ pc' = "forward" => pc = "for_train" /\ log'.ops = <<>>

\* C13 (as claimed): the steps of every training batch happen in the order
\* forward pass, loss computation, zeroing of the gradients, backpropagation,
\* optimizer step, loss accumulation.
C13_ClaimedOrder ==
    IsPrefix(log.ops, <<"forward", "loss", "zero_grad", "backward", "step", "accumulate">>)

\* C13 (amended): the steps of every training batch happen in the order
\* forward pass, zeroing of the gradients, loss computation, backpropagation,
\* one optimizer step, loss accumulation; gradients are zeroed before the
\* backward pass of the same batch, and the parameters are changed only by the
\* optimizer step, which starts after that batch's backward pass and is over
\* before the next batch's forward pass.
C13_BatchOrder ==
    /\ [](/\ IsPrefix(log.ops, CodeOrder)
          /\ pc \in BatchPcs => pc = CodeOrder[Len(log.ops) + 1]
          /\ ZeroedBeforeBackward)
    /\ [][OnlyStepChangesParameters]_vars

\* the second batch of an epoch went through all six steps
C13_Witness ==
    /\ log.ops = CodeOrder
    /\ Len(log.losses) = 2
    /\ model.grad["fc"] = 1
    /\ model.version["fc"] = 2

\* the statements that process a training, a validation, an inference batch
ValidationBatchPcs == {"val_forward", "val_count"}
InferenceBatchPcs == {"test_forward", "test_record"}

\* the forward passes made in training mode so far: one per optimizer step,
\* and the one of the batch in progress
TrainingForwards ==
    optimizer.steps + (IF pc \in {"zero_grad", "loss", "backward", "step"} THEN 1 ELSE 0)

\* C14: in every epoch the training batches are processed in training mode,
\* with gradient tracking on, before any validation batch of the epoch; every
\* validation batch and every inference batch is processed in evaluation mode
\* with gradient tracking off, all training batches of the epoch being done;
\* the model is back in training mode when the next epoch's training pass
\* begins.  The batch-norm statistics, which only a forward pass in training
\* mode updates, count the training batches and nothing else.
C14_Modes ==
    /\ pc \in BatchPcs \cup {"train_iter", "for_train"} =>
          /\ model.training /\ grad_enabled
          /\ log.seen = <<>>
    /\ pc \in ValidationBatchPcs =>
          /\ ~model.training /\ ~grad_enabled
          /\ Len(log.losses) = BatchesPerEpoch
    /\ pc \in InferenceBatchPcs =>
          /\ ~model.training /\ ~grad_enabled
          /\ py.epoch = num_epochs - 1
    /\ model.running_stats = TrainingForwards

\* a validation batch of the second epoch, in evaluation mode, after the two
\* training batches of that epoch were processed in training mode
C14_Witness ==
    /\ pc = "val_forward" /\ py.epoch = 1
    /\ ~model.training /\ ~grad_enabled
    /\ Len(log.losses) = 2
    /\ model.running_stats = 4

\* C15: over all the epochs the optimizer steps change the parameters of
\* model.fc and nothing else: the head has been updated once per step, and no
\* parameter of the pretrained backbone has ever been written, so that each has
\* after training the value it had before.
C15_OnlyHeadTrained ==
    /\ model.version["fc"] = optimizer.steps
    /\ model.version["backbone"] = 0

\* both epochs are over: four steps updated the head; the backbone, whose
\* parameters did accumulate the gradients of four backward passes, is as it was
C15_Witness ==
    /\ pc = "done"
    /\ optimizer.steps = 4
    /\ model.version["fc"] = 4
    /\ model.grad["backbone"] = 4
    /\ model.version["backbone"] = 0

\* the statements of an epoch, from the reset of the accumulators on
EpochPcs ==
    {"train_iter", "for_train", "epoch_loss", "for_epoch"} \cup BatchPcs \cup ValidationPcs

\* C16: the accumulators of the training loop are scoped to one epoch.  Each
\* epoch starts with training loss, validation loss, correct count and total
\* count at zero; all through the epoch each is the sum over the batches the
\* epoch has processed so far, so that the metrics an epoch reports are those
\* of its own batches; and at every point of the validation pass
\* correct count <= total count <= number of validation samples.
C16_EpochScoped ==
    /\ pc = "train_iter" =>
          /\ py.training_loss = 0 /\ py.validation = 0
          /\ py.correct_preds = 0 /\ py.total = 0
    /\ pc \in EpochPcs =>
          /\ Len(log.losses) <= BatchesPerEpoch
          /\ Len(log.val_losses) <= len(valid_dataset)
          /\ py.training_loss = Sum(log.losses)
          /\ py.validation = Sum(log.val_losses)
          /\ py.total = Len(log.seen)
          /\ py.correct_preds = Cardinality(CorrectSeen)
    /\ pc \in ValidationPcs =>
          /\ py.correct_preds <= py.total
          /\ py.total <= len(valid_dataset)
    /\ (pc = "for_epoch" /\ py.epoch >= 0) =>
          /\ QuotEq(stdout[2].training_loss,
                    Quot(Sum(log.losses), len(train_dataset)))
          /\ QuotEq(stdout[3].validation_loss,
                    Quot(Sum(log.val_losses), len(valid_dataset)))
          /\ QuotEq(stdout[3].validation_accuracy,
                    Quot(100 * Cardinality(CorrectSeen), Len(log.seen)))

\* the second epoch is over: its counters are those of its own two training
\* batches and two validation samples, not of the four of both epochs
C16_Witness ==
    /\ pc = "for_epoch" /\ py.epoch = 1
    /\ py.training_loss = 2
    /\ py.validation = 2
    /\ py.correct_preds = 2 /\ py.total = 2
    /\ len(valid_dataset) = 2

\* the run ended in the division of the training-loss report of its first
\* epoch: the epoch has printed its number and nothing else, the training pass
\* is over and no validation pass was begun
FailedAtTrainingLoss ==
    /\ error = "ZeroDivisionError"
    /\ py.epoch = 0
    /\ stdout = <<[epoch_number |-> 1]>>
    /\ it.state = "exhausted" /\ model.training
    /\ log.seen = <<>>

\* the run ended in the accuracy computation of its first epoch: the training
\* loss is printed, the validation pass is over with a total count of 0 and no
\* validation metric is printed
FailedAtAccuracy ==
    /\ error = "ZeroDivisionError"
    /\ py.epoch = 0
    /\ Len(stdout) = 2 /\ DOMAIN stdout[2] = {"training_loss"}
    /\ it.state = "exhausted" /\ ~model.training
    /\ py.total = 0

\* an epoch has reported its validation metrics
ReportedValidation ==
    \E i \in 1..Len(stdout) : "validation_accuracy" \in DOMAIN stdout[i]

\* the statements a run with an empty validation split never gets to
AfterAccuracy == {"val_forward", "val_count", "val_print"} \cup InferencePcs

\* what holds of a run whose validation split is empty and training split is not
EmptyValidation ==
    (len(valid_dataset) = 0 /\ len(train_dataset) > 0) =>
        /\ pc \notin AfterAccuracy
        /\ py.epoch <= 0
        /\ (pc = "error" /\ it.state = "exhausted") => FailedAtAccuracy

\* C17 (as claimed): an epoch reports its validation metrics only when both
\* splits are non-empty; with an empty training split the run ends in the
\* division by zero of the training-loss report, before any validation batch;
\* with an empty validation split it ends in the division by zero of the
\* accuracy computation, no validation metric reported.
C17_DivisionByZero ==
    /\ ReportedValidation => len(train_dataset) > 0 /\ len(valid_dataset) > 0
    /\ len(train_dataset) = 0 =>
          /\ pc \notin ValidationPcs \cup InferencePcs
          /\ pc = "error" => FailedAtTrainingLoss
    /\ EmptyValidation

\* C17 (amended): an epoch reports its validation metrics only when both
\* splits are non-empty; with an empty training split the run ends before any
\* validation batch, either with the ValueError of building the shuffling
\* training loader, before the first epoch, or in the division by zero of the
\* training-loss report; with an empty validation split it ends in the division
\* by zero of the accuracy computation, no validation metric reported.
C17_EmptySplits ==
    /\ ReportedValidation => len(train_dataset) > 0 /\ len(valid_dataset) > 0
    /\ len(train_dataset) = 0 =>
          /\ pc \notin ValidationPcs \cup InferencePcs
          /\ pc = "error" =>
                \/ error = "ValueError" /\ py.epoch = -1 /\ stdout = <<>>
                \/ FailedAtTrainingLoss
    /\ EmptyValidation

\* six training files and no validation file: the first epoch printed its
\* training loss and ended in the accuracy computation
C17_Witness ==
    /\ pc = "error"
    /\ len(train_dataset) = 6 /\ len(valid_dataset) = 0
    /\ FailedAtAccuracy

====
